---- MODULE Spec2Model ----
(***************************************************************************)
(* Finance Agent (src/app.py): FinanceAgent.get_stock_data, groq_generate, *)
(* analyze_stock, compare_stocks and the two Streamlit button handlers.    *)
(*                                                                         *)
(* Python strings are sequences of pieces (a literal of the source is one  *)
(* piece, a typed character is one piece), so concatenation is \o and      *)
(* "contains" is a contiguous subsequence.  Python values carry their type *)
(* in the field k.                                                         *)
(***************************************************************************)
EXTENDS Integers, Sequences, FiniteSets, TLC

\* ------------------------------------------------------------ bounds
MaxInputLen == 3        \* characters typed into a text input
MaxHistLen == 2         \* rows of a price history (function-level runs)
MaxVendorChanges == 2   \* times the vendor's answer changes within one interaction

\* ------------------------------------------------------------ Python values
PyNone == [k |-> "None"]
PyStr(s) == [k |-> "str", s |-> s]
PyFloat(n) == [k |-> "float", n |-> n]
PyInt(n) == [k |-> "int", n |-> n]

\* bool(v) for the values the program tests: None and "" are falsy, a
\* dictionary with keys is truthy.
Truthy(v) == v # PyNone /\ v # PyStr(<<>>)

\* isinstance(v, (int, float))
IsNumber(v) == "k" \in DOMAIN v /\ v.k \in {"int", "float"}

\* f"{v}": str of a str is itself, of an int its digits, of a float its
\* digits and a fraction, of None "None".
Str(v) ==
  CASE v.k = "str" -> v.s
    [] v.k = "int" -> <<ToString(v.n)>>
    [] v.k = "float" -> <<ToString(v.n), ".0">>
    [] OTHER -> <<"None">>

\* f"{v:.2f}"
Fmt2f(v) == <<ToString(v.n), ".00">>

NA == PyStr(<<"N/A">>)

\* ------------------------------------------------------------ string helpers
\* s occurs in t as a contiguous run of pieces
Contains(t, s) ==
  \E i \in 0..(Len(t) - Len(s)) : \A j \in 1..Len(s) : t[i + j] = s[j]

UpperChar(c) == IF c = "a" THEN "A" ELSE c

\* str.upper()
Upper(s) == [i \in 1..Len(s) |-> UpperChar(s[i])]

IsSpace(c) == c = " "

RECURSIVE LStrip(_)
LStrip(s) == IF s # <<>> /\ IsSpace(Head(s)) THEN LStrip(Tail(s)) ELSE s

RECURSIVE RStrip(_)
RStrip(s) ==
  IF s # <<>> /\ IsSpace(s[Len(s)]) THEN RStrip(SubSeq(s, 1, Len(s) - 1)) ELSE s

\* str.strip()
Strip(s) == RStrip(LStrip(s))

\* str.split(','): the pieces between commas, empty pieces kept
RECURSIVE SplitFrom(_, _)
SplitFrom(s, cur) ==
  IF s = <<>> THEN <<cur>>
  ELSE IF Head(s) = "," THEN <<cur>> \o SplitFrom(Tail(s), <<>>)
  ELSE SplitFrom(Tail(s), Append(cur, Head(s)))

Split(s) == SplitFrom(s, <<>>)

\* sep.join(list)
RECURSIVE Join(_, _)
Join(sep, l) ==
  IF l = <<>> THEN <<>>
  ELSE IF Len(l) = 1 THEN l[1]
  ELSE l[1] \o sep \o Join(sep, Tail(l))

\* ------------------------------------------------------------ the vendor
\* The keys of the vendor's info dictionary that get_stock_data reads.
InfoKeys ==
  {"longName", "currentPrice", "regularMarketPrice", "marketCap", "trailingPE",
   "trailingEPS", "fiftyTwoWeekHigh", "fiftyTwoWeekLow", "recommendationKey",
   "targetMeanPrice"}

\* What the vendor supplies under a key (version ver of the market data).
VendorValue(key, ver) ==
  CASE key = "longName" -> PyStr(<<"Acme Corp">>)
    [] key = "currentPrice" -> PyFloat(100 + ver)
    [] key = "regularMarketPrice" -> PyFloat(200 + ver)
    [] key = "marketCap" -> PyInt(3000 + ver)
    [] key = "trailingPE" -> PyFloat(40 + ver)
    [] key = "trailingEPS" -> PyFloat(50 + ver)
    [] key = "fiftyTwoWeekHigh" -> PyFloat(600 + ver)
    [] key = "fiftyTwoWeekLow" -> PyFloat(70 + ver)
    [] key = "recommendationKey" -> PyStr(<<"buy">>)
    [] OTHER -> PyFloat(900 + ver)

\* an info dictionary holding the keys K
InfoDict(K, ver) == [key \in K |-> VendorValue(key, ver)]

Closes == {1, 2}

Histories == UNION {[1..n -> Closes] : n \in 0..MaxHistLen}

\* One answer of the vendor: status says which of the two queries raises.
World(status, info, closes) == [status |-> status, info |-> info, closes |-> closes]

InfoRaises == World("info_raises", InfoDict({}, 1), <<>>)

\* every answer the vendor can give (function-level runs)
VendorWorldsFn ==
  {World("ok", InfoDict(K, 1), h) : K \in SUBSET InfoKeys, h \in Histories}
    \cup {World("history_raises", InfoDict(K, 1), <<>>) : K \in {InfoKeys, {}}}
    \cup {InfoRaises}

\* the answers the vendor gives during a UI interaction: full data with a
\* two-row history, or sparse data (no currentPrice) with an empty history
SparseKeys == {"longName", "regularMarketPrice", "marketCap"}

UiInfo(ver) == IF ver = 1 THEN InfoDict(InfoKeys, 1) ELSE InfoDict(SparseKeys, 2)

UiCloses(ver) == IF ver = 1 THEN <<1, 2>> ELSE <<>>

VendorWorldsUi ==
  {World(st, UiInfo(ver), UiCloses(ver)) :
     st \in {"ok", "info_raises", "history_raises"}, ver \in {1, 2}}

\* str(e) of the exception a failing query raises
ExcText(api) == IF api = "info" THEN <<"HTTPError">> ELSE <<"ConnectionError">>

\* an external call, as logged: which interface, with what argument, whether
\* it returned (ok) or raised, what it returned (an LLM reply's first-choice
\* content), and the place of the program that made it
Call(api, arg, ok) == [api |-> api, arg |-> arg, ok |-> ok, reply |-> <<>>, site |-> ""]

At(site, cs) == [i \in 1..Len(cs) |-> [cs[i] EXCEPT !.site = site]]

\* ------------------------------------------------------------ get_stock_data
SnapshotFields ==
  {"company_name", "current_price", "market_cap", "pe_ratio", "eps", "52w_high",
   "52w_low", "recommendation", "target_price", "price_change_1y"}

\* dict.get(key, default)
Get(d, key, default) == IF key \in DOMAIN d THEN d[key] ELSE default

\* ((history["Close"][-1] / history["Close"][0]) - 1) * 100; the closes of
\* the model are powers of two, for which the quotient is exact
PriceChange(closes) == PyFloat(((closes[Len(closes)] * 100) \div closes[1]) - 100)

\* a slip: one row of history is taken to be enough for a price change
FinancialDataOneRow(info, closes) ==
  [f \in SnapshotFields |->
     CASE f = "company_name" -> Get(info, "longName", NA)
       [] f = "current_price" ->
            Get(info, "currentPrice", Get(info, "regularMarketPrice", NA))
       [] f = "market_cap" -> Get(info, "marketCap", NA)
       [] f = "pe_ratio" -> Get(info, "trailingPE", NA)
       [] f = "eps" -> Get(info, "trailingEPS", NA)
       [] f = "52w_high" -> Get(info, "fiftyTwoWeekHigh", NA)
       [] f = "52w_low" -> Get(info, "fiftyTwoWeekLow", NA)
       [] f = "recommendation" -> Get(info, "recommendationKey", NA)
       [] f = "target_price" -> Get(info, "targetMeanPrice", NA)
       [] OTHER -> IF Len(closes) > 0 THEN PriceChange(closes) ELSE NA]

FinancialData(info, closes) ==
  [f \in SnapshotFields |->
     CASE f = "company_name" -> Get(info, "longName", NA)
       [] f = "current_price" ->
            Get(info, "currentPrice", Get(info, "regularMarketPrice", NA))
       [] f = "market_cap" -> Get(info, "marketCap", NA)
       [] f = "pe_ratio" -> Get(info, "trailingPE", NA)
       [] f = "eps" -> Get(info, "trailingEPS", NA)
       [] f = "52w_high" -> Get(info, "fiftyTwoWeekHigh", NA)
       [] f = "52w_low" -> Get(info, "fiftyTwoWeekLow", NA)
       [] f = "recommendation" -> Get(info, "recommendationKey", NA)
       [] f = "target_price" -> Get(info, "targetMeanPrice", NA)
       [] OTHER -> IF Len(closes) > 1 THEN PriceChange(closes) ELSE NA]

RetrievalError(ticker, api) ==
  PyStr(<<"Error retrieving data for ">> \o ticker \o <<": ">> \o ExcText(api))

\* a slip: a failed info query is tried a second time
GetStockDataRetry(ticker, w) ==
  IF w.status = "info_raises" THEN
    [data |-> PyNone, error |-> RetrievalError(ticker, "info"),
     calls |-> <<Call("info", ticker, FALSE), Call("info", ticker, FALSE)>>,
     raised |-> FALSE]
  ELSE IF w.status = "history_raises" THEN
    [data |-> PyNone, error |-> RetrievalError(ticker, "history"),
     calls |-> <<Call("info", ticker, TRUE), Call("history", ticker, FALSE)>>,
     raised |-> FALSE]
  ELSE
    [data |-> FinancialData(w.info, w.closes), error |-> PyNone,
     calls |-> <<Call("info", ticker, TRUE), Call("history", ticker, TRUE)>>,
     raised |-> FALSE]

\* get_stock_data(ticker) against the vendor answer w: the pair it returns,
\* the vendor queries it made, in order, and whether an exception left it
GetStockData(ticker, w) ==
  IF w.status = "info_raises" THEN
    [data |-> PyNone, error |-> RetrievalError(ticker, "info"),
     calls |-> <<Call("info", ticker, FALSE)>>, raised |-> FALSE]
  ELSE IF w.status = "history_raises" THEN
    [data |-> PyNone, error |-> RetrievalError(ticker, "history"),
     calls |-> <<Call("info", ticker, TRUE), Call("history", ticker, FALSE)>>,
     raised |-> FALSE]
  ELSE
    [data |-> FinancialData(w.info, w.closes), error |-> PyNone,
     calls |-> <<Call("info", ticker, TRUE), Call("history", ticker, TRUE)>>,
     raised |-> FALSE]

\* ------------------------------------------------------------ groq_generate
LLMContents == {<<"Strong fundamentals.">>, <<>>}

\* what happens to the one POST: it returns a well-formed body, or one of
\* the four steps of lines 77-79 raises
LLMOutcomes ==
  {[kind |-> "ok", content |-> c] : c \in LLMContents}
    \cup {[kind |-> kd, content |-> <<>>] :
            kd \in {"transport_error", "http_error", "bad_json", "no_choices"}}

LLMExcText(kind) ==
  CASE kind = "transport_error" -> <<"ConnectionError">>
    [] kind = "http_error" -> <<"429 Client Error">>
    [] kind = "bad_json" -> <<"JSONDecodeError">>
    [] OTHER -> <<"list index out of range">>

GenerationError(kind) == PyStr(<<"Error generating content: ">> \o LLMExcText(kind))

\* a slip: the request is made outside the try block
GroqGenerateNoTry(prompt, o) ==
  [text |-> IF o.kind = "ok" THEN PyStr(o.content) ELSE GenerationError(o.kind),
   calls |-> <<[Call("llm", prompt, o.kind = "ok") EXCEPT !.reply = o.content]>>,
   raised |-> o.kind # "ok"]

\* groq_generate(prompt) when the POST meets outcome o: the string returned
\* and the requests sent
GroqGenerate(prompt, o) ==
  [text |-> IF o.kind = "ok" THEN PyStr(o.content) ELSE GenerationError(o.kind),
   calls |-> <<[Call("llm", prompt, o.kind = "ok") EXCEPT !.reply = o.content]>>,
   raised |-> FALSE]

\* ------------------------------------------------------------ prompts
\* the f-string of analyze_stock, lines 91-117, in its three blocks (runs of
\* blanks and newlines of the literal text are written as one blank)
AnalyzeOverview(ticker, data) ==
  <<" As a financial analyst, provide a comprehensive analysis of ">>
    \o Str(data["company_name"]) \o <<" (">> \o ticker
    \o <<") with the following data: MARKET OVERVIEW: - Current Price: $">>
    \o Str(data["current_price"]) \o <<" - 52-Week Range: $">>
    \o Str(data["52w_low"]) \o <<" - $">> \o Str(data["52w_high"])
    \o <<" - Market Cap: $">> \o Str(data["market_cap"])

\* a slip: the EPS line is left out when the figure is unavailable
AnalyzeMetricsSkipsNA(data) ==
  <<" FINANCIAL METRICS: - P/E Ratio: ">> \o Str(data["pe_ratio"])
    \o (IF data["eps"] = NA THEN <<>> ELSE <<" - EPS: $">> \o Str(data["eps"]))
    \o <<" - 1-Year Price Change: ">> \o Str(data["price_change_1y"])

AnalyzeMetrics(data) ==
  <<" FINANCIAL METRICS: - P/E Ratio: ">> \o Str(data["pe_ratio"])
    \o <<" - EPS: $">> \o Str(data["eps"]) \o <<" - 1-Year Price Change: ">>
    \o Str(data["price_change_1y"])

AnalyzeInsights(data) ==
  <<"% ANALYST INSIGHTS: - Recommendation: ">> \o Str(data["recommendation"])
    \o <<" - Target Price: $">> \o Str(data["target_price"])
    \o <<" Follow this structure: 1. Executive Summary (2-3 sentences) 2. Financial Performance Analysis 3. Market Position 4. Future Outlook & Risks 5. Investment Perspective Keep the analysis professional but easy to understand for regular investors. Use bullet points for key insights. ">>

AnalyzePrompt(ticker, data) ==
  AnalyzeOverview(ticker, data) \o AnalyzeMetrics(data) \o AnalyzeInsights(data)

\* price_change_str of lines 140-141 and 278-279
PriceChangeStr(data) ==
  LET price_change == Get(data, "price_change_1y", NA)
  IN IF IsNumber(price_change) THEN Fmt2f(price_change) \o <<"%">>
     ELSE Str(price_change)

\* one line of metrics_table, line 143
MetricsRow(data) ==
  <<"| ">> \o Str(data["company_name"]) \o <<" | $">> \o Str(data["current_price"])
    \o <<" | ">> \o Str(data["pe_ratio"]) \o <<" | $">> \o Str(data["market_cap"])
    \o <<" | ">> \o PriceChangeStr(data) \o <<" | ">> \o Str(data["recommendation"])
    \o <<" |\n">>

RECURSIVE MetricsRows(_, _)
MetricsRows(ticker_list, all) ==
  IF ticker_list = <<>> THEN <<>>
  ELSE MetricsRow(all[Head(ticker_list)]) \o MetricsRows(Tail(ticker_list), all)

\* companies of line 133
Companies(ticker_list, all) ==
  Join(<<", ">>,
       [i \in 1..Len(ticker_list) |->
          Str(all[ticker_list[i]]["company_name"]) \o <<" (">> \o ticker_list[i]
            \o <<")">>])

\* the f-string of compare_stocks, lines 135-159
ComparePrompt(ticker_list, all) ==
  <<" As a financial analyst, compare these companies: ">>
    \o Companies(ticker_list, all)
    \o <<" Here are their key metrics: ",
         "| Company | Price | P/E | Market Cap | 1Y Change | Recommendation |\n",
         "| ------- | ----- | --- | ---------- | --------- | -------------- |\n">>
    \o MetricsRows(ticker_list, all)
    \o <<" Provide a comparative analysis with: 1. Industry Overview (brief) 2. Company-by-Company Performance 3. Investment Outlook Keep the analysis simple, clear and accessible for regular investors. Highlight key strengths and weaknesses for each company. ">>

\* all_data[ticker] = data
Put(d, key, val) == [x \in DOMAIN d \cup {key} |-> IF x = key THEN val ELSE d[x]]

EmptyDict == [x \in {} |-> PyNone]

\* ------------------------------------------------------------ the page
Widget(kind, text) == [widget |-> kind, text |-> text]

\* a slip: the handler has no except clause of its own
HandlerNoExcept(e) == [pc |-> "crashed", shown |-> <<>>]

\* the except clause of a button handler, lines 228-229 and 324-325: the
\* exception becomes an st.error line and the handler ends
HandlerExcept(e) ==
  [pc |-> "done", shown |-> <<Widget("error", <<"An error occurred: ">> \o e)>>]

\* yf.Ticker(ticker).history(period="1y") called by a handler for its chart
ChartFetch(ticker, w) ==
  [raised |-> w.status = "history_raises", closes |-> w.closes,
   calls |-> <<Call("history", ticker, w.status # "history_raises")>>]

IndustryOptions ==
  [option \in {"Custom", "Tech Giants", "Semiconductors", "Automotive", "Banking"} |->
     CASE option = "Tech Giants" ->
            <<<<"A", "A", "P", "L">>, <<"M", "S", "F", "T">>,
              <<"G", "O", "O", "G", "L">>, <<"A", "M", "Z", "N">>>>
       [] option = "Semiconductors" ->
            <<<<"N", "V", "D", "A">>, <<"A", "M", "D">>, <<"I", "N", "T", "C">>,
              <<"T", "S", "M">>>>
       [] option = "Automotive" ->
            <<<<"T", "S", "L", "A">>, <<"F">>, <<"G", "M">>, <<"T", "M">>>>
       [] option = "Banking" ->
            <<<<"J", "P", "M">>, <<"B", "A", "C">>, <<"C">>, <<"W", "F", "C">>>>
       [] OTHER -> <<>>]

\* ticker_list of lines 246-253
TickerList(option, ticker_input) ==
  IF option = "Custom" THEN
    IF ticker_input # <<>> THEN
      LET parts == Split(ticker_input)
      IN [i \in 1..Len(parts) |-> Upper(Strip(parts[i]))]
    ELSE <<>>
  ELSE IndustryOptions[option]

\* one record of comparison_data, lines 277-288
ComparisonRow(ticker, d) ==
  [Company |-> PyStr(Str(d["company_name"]) \o <<" (">> \o ticker \o <<")">>),
   Price |-> PyStr(<<"$">> \o Str(d["current_price"])),
   PE |-> d["pe_ratio"],
   MarketCap |-> PyStr(<<"$">> \o Str(d["market_cap"])),
   Change1Y |-> PyStr(PriceChangeStr(d)),
   Recommendation |-> d["recommendation"]]

ComparisonData(tickers, all) ==
  [i \in 1..Len(tickers) |-> ComparisonRow(tickers[i], all[tickers[i]])]

\* what a user can type into a text input
Alphabet == {"a", ",", " "}

Inputs == UNION {[1..n -> Alphabet] : n \in 0..MaxInputLen}

\* the tickers a direct caller passes (function-level runs)
FnTickers == {<<>>, <<"A", "B">>}

\* ------------------------------------------------------------ state
VARIABLES
  pc,            \* where the script or the called method stands
  ret,           \* where the running method returns to
  vendor,        \* the answer the market-data vendor gives at this moment
  changes,       \* vendor changes so far in this interaction
  ticker_symbol, \* line 184
  analyze_button, \* line 187
  compare_button, \* line 256
  ticker_list,   \* lines 246-253
  idx,           \* position of a handler's for loop over ticker_list
  data,          \* the handler's data (line 193)
  all_data,      \* the handler's all_data (line 262)
  traces,        \* the tickers whose trace the comparison figure holds
  arg,           \* the argument of the running method
  fn_data,       \* data of analyze_stock (line 85), of a direct get_stock_data
  fn_idx,        \* position of compare_stocks' for loop
  fn_all_data,   \* all_data of compare_stocks (line 124)
  result,        \* the value the method returned
  calls,         \* the external calls of this interaction, in order
  displayed      \* the widgets this run has put on the page, in order

vars ==
  <<pc, ret, vendor, changes, ticker_symbol, analyze_button, compare_button, ticker_list, idx, data, all_data,
    traces, arg, fn_data, fn_idx, fn_all_data, result, calls, displayed>>

widgets == <<ticker_symbol, analyze_button, compare_button, ticker_list>>

locals == <<idx, data, all_data, traces, arg, fn_data, fn_idx, fn_all_data, result>>

InitLocals ==
  /\ idx = 1
  /\ data = PyNone
  /\ all_data = EmptyDict
  /\ traces = <<>>
  /\ arg = <<>>
  /\ fn_data = PyNone
  /\ fn_idx = 1
  /\ fn_all_data = EmptyDict
  /\ result = PyNone
  /\ calls = <<>>
  /\ displayed = <<>>
  /\ changes = 0
  /\ ret = "none"
  /\ ticker_symbol = <<>>
  /\ analyze_button = FALSE
  /\ compare_button = FALSE
  /\ ticker_list = <<>>

\* the page waiting for its first event
Init == pc = "idle" /\ vendor \in VendorWorldsUi /\ InitLocals

\* a caller about to invoke one method of the agent
InitFn == pc = "fn_idle" /\ vendor \in VendorWorldsFn /\ InitLocals

\* a run of the script starts every local afresh; the run ends at "done",
\* with the page rendered (the next event would run the script again, from
\* the same start)
Fresh ==
  /\ idx' = 1
  /\ data' = PyNone
  /\ all_data' = EmptyDict
  /\ traces' = <<>>
  /\ arg' = <<>>
  /\ fn_data' = PyNone
  /\ fn_idx' = 1
  /\ fn_all_data' = EmptyDict
  /\ result' = PyNone
  /\ calls' = <<>>
  /\ changes' = 0
  /\ ret' = "none"

\* an exception leaving the running method: inside a handler's try it reaches
\* the handler's except clause, in a direct call it reaches the caller
Unwind(e) ==
  IF ret = "fn_done" THEN pc' = "fn_raised" /\ displayed' = displayed
  ELSE LET h == HandlerExcept(e)
       IN pc' = h.pc /\ displayed' = displayed \o h.shown

\* ------------------------------------------------------------ the vendor moves
VendorChange ==
  /\ pc \notin {"idle", "done", "crashed"}
  /\ changes < MaxVendorChanges
  /\ \E w \in VendorWorldsUi \ {vendor} : vendor' = w
  /\ changes' = changes + 1
  /\ UNCHANGED <<pc, ret, widgets, locals, calls, displayed>>

\* ------------------------------------------------------------ single stock tab
\* lines 184-190: the script runs with the text typed and the button state
ClickAnalyze(text, pressed) ==
  /\ pc = "idle"
  /\ ticker_symbol' = Upper(text)
  /\ analyze_button' = pressed
  /\ compare_button' = FALSE
  /\ ticker_list' = <<>>
  /\ Fresh
  /\ displayed' = <<>>
  /\ pc' = IF ticker_symbol' # <<>> /\ analyze_button' THEN "single_get" ELSE "done"
  /\ UNCHANGED vendor

\* lines 193-208
SingleGetData ==
  /\ pc = "single_get"
  /\ LET r == GetStockData(ticker_symbol, vendor)
     IN /\ calls' = calls \o At("single_tab", r.calls)
        /\ IF r.raised THEN
             LET h == HandlerExcept(<<"raised">>)
             IN pc' = h.pc /\ displayed' = displayed \o h.shown /\ data' = data
           ELSE
             /\ data' = r.data
             /\ IF Truthy(r.error) THEN
                  /\ displayed' = Append(displayed, Widget("error", r.error.s))
                  /\ pc' = "done"
                ELSE
                  /\ displayed' = displayed \o
                       <<Widget("subheader",
                                Str(r.data["company_name"]) \o <<" (">> \o ticker_symbol
                                  \o <<")">>),
                         Widget("metric Current Price",
                                <<"$">> \o Str(r.data["current_price"])),
                         Widget("metric Market Cap", <<"$">> \o Str(r.data["market_cap"])),
                         Widget("metric P/E Ratio", Str(r.data["pe_ratio"])),
                         Widget("subheader", <<"Price History (1 Year)">>)>>
                  /\ pc' = "single_chart"
  /\ UNCHANGED <<ret, vendor, changes, widgets, idx, all_data,
                 traces, arg, fn_data, fn_idx, fn_all_data, result>>

\* lines 209-221
SingleChart ==
  /\ pc = "single_chart"
  /\ LET c == ChartFetch(ticker_symbol, vendor)
     IN /\ calls' = calls \o At("chart", c.calls)
        /\ IF c.raised THEN
             LET h == HandlerExcept(ExcText("history"))
             IN pc' = h.pc /\ displayed' = displayed \o h.shown
           ELSE
             /\ displayed' =
                  IF c.closes # <<>> THEN Append(displayed, Widget("chart", <<"Price">>))
                  ELSE displayed
             /\ pc' = "single_analysis"
  /\ UNCHANGED <<ret, vendor, changes, widgets, locals>>

\* lines 224-225: the call of agent.analyze_stock(ticker_symbol)
SingleAnalysisCall ==
  /\ pc = "single_analysis"
  /\ displayed' = Append(displayed, Widget("subheader", <<"AI Analysis">>))
  /\ arg' = ticker_symbol
  /\ ret' = "single_show"
  /\ pc' = "analyze_get"
  /\ UNCHANGED <<vendor, changes, widgets, idx, data, all_data,
                 traces, fn_data, fn_idx, fn_all_data, result, calls>>

\* a slip: the analysis is shown under a heading of the handler's own
SingleShowHeaded ==
  /\ pc = "single_show"
  /\ displayed' = Append(displayed, Widget("markdown", <<"Analysis: ">> \o Str(result)))
  /\ pc' = "done"
  /\ UNCHANGED <<ret, vendor, changes, widgets, locals, calls>>

\* line 226
SingleShow ==
  /\ pc = "single_show"
  /\ displayed' = Append(displayed, Widget("markdown", Str(result)))
  /\ pc' = "done"
  /\ UNCHANGED <<ret, vendor, changes, widgets, locals, calls>>

\* ------------------------------------------------------------ analyze_stock
\* a slip: the retrieval error is wrapped before it is returned
AnalyzeGetWraps ==
  /\ pc = "analyze_get"
  /\ LET r == GetStockData(arg, vendor)
     IN /\ calls' = calls \o At("analyze_stock", r.calls)
        /\ fn_data' = r.data
        /\ displayed' = displayed
        /\ IF Truthy(r.error) THEN
             result' = PyStr(<<"Error processing ">> \o arg \o <<": ">> \o Str(r.error))
               /\ pc' = ret
           ELSE result' = result /\ pc' = "analyze_generate"
  /\ UNCHANGED <<ret, vendor, changes, widgets, idx, data,
                 all_data, traces, arg, fn_idx, fn_all_data>>

\* lines 85-88
AnalyzeGet ==
  /\ pc = "analyze_get"
  /\ LET r == GetStockData(arg, vendor)
     IN /\ calls' = calls \o At("analyze_stock", r.calls)
        /\ IF r.raised THEN Unwind(<<"raised">>) /\ UNCHANGED <<fn_data, result>>
           ELSE
             /\ fn_data' = r.data
             /\ displayed' = displayed
             /\ IF Truthy(r.error) THEN result' = r.error /\ pc' = ret
                ELSE result' = result /\ pc' = "analyze_generate"
  /\ UNCHANGED <<ret, vendor, changes, widgets, idx, data,
                 all_data, traces, arg, fn_idx, fn_all_data>>

\* lines 91-120
AnalyzeGenerate ==
  /\ pc = "analyze_generate"
  /\ \E o \in LLMOutcomes :
       LET g == GroqGenerate(AnalyzePrompt(arg, fn_data), o)
       IN /\ calls' = calls \o At("analyze_stock", g.calls)
          /\ IF g.raised THEN Unwind(LLMExcText(o.kind)) /\ result' = result
             ELSE result' = g.text /\ pc' = ret /\ displayed' = displayed
  /\ UNCHANGED <<ret, vendor, changes, widgets, idx, data,
                 all_data, traces, arg, fn_data, fn_idx, fn_all_data>>

\* ------------------------------------------------------------ compare tab
\* lines 244-259 and 326-327
ClickCompare(option, ticker_input, pressed) ==
  /\ pc = "idle"
  /\ ticker_symbol' = <<>>
  /\ analyze_button' = FALSE
  /\ compare_button' = pressed
  /\ ticker_list' = TickerList(option, ticker_input)
  /\ Fresh
  /\ LET selected ==
           IF option # "Custom" THEN
             <<Widget("write", <<"Selected tickers: ">> \o Join(<<", ">>, ticker_list'))>>
           ELSE <<>>
     IN IF ticker_list' # <<>> /\ Len(ticker_list') >= 2 /\ compare_button' THEN
          pc' = "compare_loop" /\ displayed' = selected
        ELSE IF ticker_list' # <<>> /\ compare_button' THEN
          /\ pc' = "done"
          /\ displayed' = Append(selected,
               Widget("warning", <<"Please select at least 2 stocks for comparison">>))
        ELSE pc' = "done" /\ displayed' = selected
  /\ UNCHANGED vendor

\* one pass of the loop of lines 265-271
CompareLoop ==
  /\ pc = "compare_loop"
  /\ LET ticker == ticker_list[idx]
         r == GetStockData(ticker, vendor)
     IN /\ calls' = calls \o At("compare_tab", r.calls)
        /\ IF r.raised THEN
             LET h == HandlerExcept(<<"raised">>)
             IN /\ pc' = h.pc
                /\ displayed' = displayed \o h.shown
                /\ UNCHANGED <<idx, all_data>>
           ELSE IF Truthy(r.error) THEN
             /\ displayed' = Append(displayed, Widget("error", r.error.s))
             /\ pc' = "done"
             /\ UNCHANGED <<idx, all_data>>
           ELSE
             /\ all_data' = Put(all_data, ticker, r.data)
             /\ displayed' = displayed
             /\ IF idx = Len(ticker_list) THEN pc' = "compare_table" /\ idx' = 1
                ELSE pc' = pc /\ idx' = idx + 1
  /\ UNCHANGED <<ret, vendor, changes, widgets, data, traces,
                 arg, fn_data, fn_idx, fn_all_data, result>>

\* lines 273-297
CompareTable ==
  /\ pc = "compare_table"
  /\ displayed' = displayed \o
       <<Widget("subheader", <<"Comparison Metrics">>),
         [widget |-> "table", rows |-> ComparisonData(ticker_list, all_data)],
         Widget("subheader", <<"Price Performance (1 Year)">>)>>
  /\ pc' = "compare_chart"
  /\ UNCHANGED <<ret, vendor, changes, widgets, locals, calls>>

\* one pass of the loop of lines 298-310, and lines 312-317 after the last
CompareChart ==
  /\ pc = "compare_chart"
  /\ LET ticker == ticker_list[idx]
         c == ChartFetch(ticker, vendor)
     IN /\ calls' = calls \o At("chart", c.calls)
        /\ IF c.raised THEN
             LET h == HandlerExcept(ExcText("history"))
             IN /\ pc' = h.pc
                /\ displayed' = displayed \o h.shown
                /\ UNCHANGED <<idx, traces>>
           ELSE
             /\ traces' = IF c.closes # <<>> THEN Append(traces, ticker) ELSE traces
             /\ IF idx = Len(ticker_list) THEN
                  /\ pc' = "compare_analysis"
                  /\ idx' = 1
                  /\ displayed' = Append(displayed, [widget |-> "chart", text |-> traces'])
                ELSE pc' = pc /\ idx' = idx + 1 /\ displayed' = displayed
  /\ UNCHANGED <<ret, vendor, changes, widgets, data, all_data,
                 arg, fn_data, fn_idx, fn_all_data, result>>

\* lines 320-321: the call of agent.compare_stocks(ticker_list)
CompareAnalysisCall ==
  /\ pc = "compare_analysis"
  /\ displayed' = Append(displayed, Widget("subheader", <<"AI-Powered Comparison">>))
  /\ arg' = ticker_list
  /\ ret' = "compare_show"
  /\ pc' = "cs_loop"
  /\ fn_idx' = 1
  /\ fn_all_data' = EmptyDict
  /\ UNCHANGED <<vendor, changes, widgets, idx, data, all_data,
                 traces, fn_data, result, calls>>

\* line 322
CompareShow ==
  /\ pc = "compare_show"
  /\ displayed' = Append(displayed, Widget("markdown", Str(result)))
  /\ pc' = "done"
  /\ UNCHANGED <<ret, vendor, changes, widgets, locals, calls>>

\* ------------------------------------------------------------ compare_stocks
ProcessingError(ticker, error) ==
  PyStr(<<"Error processing ">> \o ticker \o <<": ">> \o Str(error))

\* a slip: a failing ticker is noted and the loop goes on to the next one
CsLoopGoesOn ==
  /\ pc = "cs_loop"
  /\ LET ticker == arg[fn_idx]
         r == GetStockData(ticker, vendor)
         noted == IF Truthy(r.data) THEN result ELSE ProcessingError(ticker, r.error)
     IN /\ calls' = calls \o At("compare_stocks", r.calls)
        /\ fn_all_data' = IF Truthy(r.data) THEN Put(fn_all_data, ticker, r.data)
                          ELSE fn_all_data
        /\ result' = noted
        /\ displayed' = displayed
        /\ IF fn_idx < Len(arg) THEN pc' = pc /\ fn_idx' = fn_idx + 1
           ELSE /\ fn_idx' = fn_idx
                /\ pc' = IF noted = PyNone THEN "cs_generate" ELSE ret
  /\ UNCHANGED <<ret, vendor, changes, widgets, idx, data,
                 all_data, traces, arg, fn_data>>

\* one pass of the loop of lines 125-130
CsLoop ==
  /\ pc = "cs_loop"
  /\ LET ticker == arg[fn_idx]
         r == GetStockData(ticker, vendor)
     IN /\ calls' = calls \o At("compare_stocks", r.calls)
        /\ IF r.raised THEN
             Unwind(<<"raised">>) /\ UNCHANGED <<fn_idx, fn_all_data, result>>
           ELSE IF Truthy(r.data) THEN
             /\ fn_all_data' = Put(fn_all_data, ticker, r.data)
             /\ displayed' = displayed
             /\ result' = result
             /\ IF fn_idx = Len(arg) THEN pc' = "cs_generate" /\ fn_idx' = fn_idx
                ELSE pc' = pc /\ fn_idx' = fn_idx + 1
           ELSE
             /\ result' = ProcessingError(ticker, r.error)
             /\ pc' = ret
             /\ displayed' = displayed
             /\ UNCHANGED <<fn_idx, fn_all_data>>
  /\ UNCHANGED <<ret, vendor, changes, widgets, idx, data,
                 all_data, traces, arg, fn_data>>

\* lines 132-162
CsGenerate ==
  /\ pc = "cs_generate"
  /\ \E o \in LLMOutcomes :
       LET g == GroqGenerate(ComparePrompt(arg, fn_all_data), o)
       IN /\ calls' = calls \o At("compare_stocks", g.calls)
          /\ IF g.raised THEN Unwind(LLMExcText(o.kind)) /\ result' = result
             ELSE result' = g.text /\ pc' = ret /\ displayed' = displayed
  /\ UNCHANGED <<ret, vendor, changes, widgets, idx, data,
                 all_data, traces, arg, fn_data, fn_idx, fn_all_data>>

\* ------------------------------------------------------------ direct calls
\* agent.get_stock_data(ticker), called on its own
FnCallGetStockData(ticker) ==
  /\ pc = "fn_idle"
  /\ LET r == GetStockData(ticker, vendor)
     IN /\ arg' = ticker
        /\ calls' = calls \o At("caller", r.calls)
        /\ fn_data' = r.data
        /\ result' = r.error
        /\ pc' = IF r.raised THEN "fn_raised" ELSE "fn_done"
  /\ UNCHANGED <<ret, vendor, changes, widgets, idx, data,
                 all_data, traces, fn_idx, fn_all_data, displayed>>

\* agent.analyze_stock(ticker), called on its own
FnCallAnalyzeStock(ticker) ==
  /\ pc = "fn_idle"
  /\ arg' = ticker
  /\ ret' = "fn_done"
  /\ pc' = "analyze_get"
  /\ UNCHANGED <<vendor, changes, widgets, idx, data, all_data,
                 traces, fn_data, fn_idx, fn_all_data, result, calls, displayed>>

\* ------------------------------------------------------------ specifications
Next ==
  \/ \E text \in Inputs, b \in BOOLEAN : ClickAnalyze(text, b)
  \/ SingleGetData
  \/ SingleChart
  \/ SingleAnalysisCall
  \/ SingleShow
  \/ AnalyzeGet
  \/ AnalyzeGenerate
  \/ \E option \in DOMAIN IndustryOptions, text \in Inputs, b \in BOOLEAN :
       ClickCompare(option, text, b)
  \/ CompareLoop
  \/ CompareTable
  \/ CompareChart
  \/ CompareAnalysisCall
  \/ CompareShow
  \/ CsLoop
  \/ CsGenerate
  \/ VendorChange

Spec == Init /\ [][Next]_vars

NextFn ==
  \/ \E ticker \in FnTickers : FnCallGetStockData(ticker)
  \/ \E ticker \in FnTickers : FnCallAnalyzeStock(ticker)
  \/ AnalyzeGet
  \/ AnalyzeGenerate

SpecFn == InitFn /\ [][NextFn]_vars

\* ------------------------------------------------------------ the log, read
VendorCalls(cs) == SelectSeq(cs, LAMBDA c : c.api \in {"info", "history"})

LlmCalls(cs) == SelectSeq(cs, LAMBDA c : c.api = "llm")

CallsOf(cs, api) == SelectSeq(cs, LAMBDA c : c.api = api)

CallsAt(cs, site) == SelectSeq(cs, LAMBDA c : c.site = site)

Failed(cs) == SelectSeq(cs, LAMBDA c : ~c.ok)

IsSnapshot(d) == d # PyNone /\ DOMAIN d = SnapshotFields

\* a direct call of get_stock_data has returned or raised
GetStockDataCalled == ret = "none" /\ pc \in {"fn_done", "fn_raised"}

\* a direct call of analyze_stock has returned or raised
AnalyzeStockCalled == ret = "fn_done" /\ pc \in {"fn_done", "fn_raised"}

\* ------------------------------------------------------------ claims
\* C1: get_stock_data never raises and returns exactly one of two shapes: a
\* snapshot and no error when both vendor queries succeed, or no snapshot and
\* an error string naming the ticker when a query raises; and it repeats no
\* vendor query (each of its two queries is made at most once per call).
C1_GetStockDataTwoShapes ==
  GetStockDataCalled =>
    /\ pc # "fn_raised"
    /\ \/ IsSnapshot(fn_data) /\ result = PyNone /\ vendor.status = "ok"
       \/ /\ fn_data = PyNone
          /\ result # PyNone
          /\ result.k = "str"
          /\ result.s # <<>>
          /\ Contains(result.s, arg)
          /\ vendor.status # "ok"
    /\ Len(CallsOf(calls, "info")) <= 1
    /\ Len(CallsOf(calls, "history")) <= 1

\* the second query raised, for a ticker of two letters: the error shape
C1_Witness ==
  /\ GetStockDataCalled
  /\ arg = <<"A", "B">>
  /\ vendor.status = "history_raises"
  /\ fn_data = PyNone
  /\ Len(calls) = 2

\* the vendor key a snapshot field is read from
VendorKeyOf(f) ==
  CASE f = "company_name" -> "longName"
    [] f = "market_cap" -> "marketCap"
    [] f = "pe_ratio" -> "trailingPE"
    [] f = "eps" -> "trailingEPS"
    [] f = "52w_high" -> "fiftyTwoWeekHigh"
    [] f = "52w_low" -> "fiftyTwoWeekLow"
    [] f = "recommendation" -> "recommendationKey"
    [] f = "target_price" -> "targetMeanPrice"
    [] OTHER -> "currentPrice"

\* C7: every snapshot get_stock_data returns holds all ten fields; a field is
\* the vendor's value when the vendor response has its key and "N/A" when
\* not (current price: currentPrice, else regularMarketPrice, else "N/A");
\* the 1-year price change is "N/A" exactly when the history has fewer than
\* two rows.
C7_SnapshotFieldsPresentOrNA ==
  (pc = "fn_done" /\ fn_data # PyNone) =>
    /\ DOMAIN fn_data = SnapshotFields
    /\ \A f \in SnapshotFields \ {"current_price", "price_change_1y"} :
         IF VendorKeyOf(f) \in DOMAIN vendor.info
         THEN fn_data[f] = vendor.info[VendorKeyOf(f)]
         ELSE fn_data[f] = NA
    /\ fn_data["current_price"] =
         (IF "currentPrice" \in DOMAIN vendor.info THEN vendor.info["currentPrice"]
          ELSE IF "regularMarketPrice" \in DOMAIN vendor.info
            THEN vendor.info["regularMarketPrice"]
          ELSE NA)
    /\ (fn_data["price_change_1y"] = NA) <=> (Len(vendor.closes) < 2)

\* a one-row history and a response without currentPrice but with the
\* regular market price
C7_Witness ==
  /\ GetStockDataCalled
  /\ fn_data # PyNone
  /\ Len(vendor.closes) = 1
  /\ "currentPrice" \notin DOMAIN vendor.info
  /\ "regularMarketPrice" \in DOMAIN vendor.info
  /\ fn_data["current_price"] = vendor.info["regularMarketPrice"]
  /\ fn_data["eps"] = NA

\* the literal text of analyze_stock's template, in order
AnalyzeLiterals ==
  <<" As a financial analyst, provide a comprehensive analysis of ",
    " (",
    ") with the following data: MARKET OVERVIEW: - Current Price: $",
    " - 52-Week Range: $",
    " - $",
    " - Market Cap: $",
    " FINANCIAL METRICS: - P/E Ratio: ",
    " - EPS: $",
    " - 1-Year Price Change: ",
    "% ANALYST INSIGHTS: - Recommendation: ",
    " - Target Price: $",
    " Follow this structure: 1. Executive Summary (2-3 sentences) 2. Financial Performance Analysis 3. Market Position 4. Future Outlook & Risks 5. Investment Perspective Keep the analysis professional but easy to understand for regular investors. Use bullet points for key insights. ">>

IsAnalyzeLiteral(piece) == \E i \in 1..Len(AnalyzeLiterals) : AnalyzeLiterals[i] = piece

\* the literal that precedes a field's value in the template
LabelOf(f) ==
  CASE f = "company_name" -> AnalyzeLiterals[1]
    [] f = "current_price" -> AnalyzeLiterals[3]
    [] f = "52w_low" -> AnalyzeLiterals[4]
    [] f = "52w_high" -> AnalyzeLiterals[5]
    [] f = "market_cap" -> AnalyzeLiterals[6]
    [] f = "pe_ratio" -> AnalyzeLiterals[7]
    [] f = "eps" -> AnalyzeLiterals[8]
    [] f = "price_change_1y" -> AnalyzeLiterals[9]
    [] f = "recommendation" -> AnalyzeLiterals[10]
    [] OTHER -> AnalyzeLiterals[11]

\* the prompt analyze_stock sent
SentPrompt == calls[Len(calls)].arg

\* C6: the prompt analyze_stock builds is the fixed template with the ticker
\* and each of the ten snapshot fields substituted by the snapshot's value:
\* every field's value stands right after its label, the literal text is the
\* same whatever fields are "N/A", and the prompt holds nothing else.
C6_PromptIsTemplateWithValues ==
  (AnalyzeStockCalled /\ LlmCalls(calls) # <<>>) =>
    /\ \A f \in SnapshotFields :
         Contains(SentPrompt, <<LabelOf(f)>> \o Str(fn_data[f]))
    /\ Contains(SentPrompt, <<" (">> \o arg \o <<") with the following data: MARKET OVERVIEW: - Current Price: $">>)
    /\ SelectSeq(SentPrompt, IsAnalyzeLiteral) = AnalyzeLiterals
    /\ Len(SentPrompt) =
         Len(AnalyzeLiterals) + Len(arg) + Len(Str(fn_data["company_name"]))
           + Len(Str(fn_data["current_price"])) + Len(Str(fn_data["52w_low"]))
           + Len(Str(fn_data["52w_high"])) + Len(Str(fn_data["market_cap"]))
           + Len(Str(fn_data["pe_ratio"])) + Len(Str(fn_data["eps"]))
           + Len(Str(fn_data["price_change_1y"])) + Len(Str(fn_data["recommendation"]))
           + Len(Str(fn_data["target_price"]))

\* a prompt for a snapshot with unavailable and available fields
C6_Witness ==
  /\ AnalyzeStockCalled
  /\ LlmCalls(calls) # <<>>
  /\ arg = <<"A", "B">>
  /\ fn_data["eps"] = NA
  /\ fn_data["price_change_1y"] = NA
  /\ fn_data["pe_ratio"] # NA

\* C8: analyze_stock sends an LLM request only after its retrieval succeeded:
\* on a retrieval error it returns get_stock_data's error string unchanged
\* and sends no LLM request; on success it sends exactly one.
C8_AnalyzeRequestsOnlyAfterRetrieval ==
  /\ \A i \in 1..Len(calls) :
       calls[i].api = "llm" =>
         /\ IsSnapshot(fn_data)
         /\ i = 3
         /\ calls[1].api = "info" /\ calls[1].ok
         /\ calls[2].api = "history" /\ calls[2].ok
  /\ AnalyzeStockCalled =>
       /\ pc = "fn_done"
       /\ IF Failed(VendorCalls(calls)) # <<>> THEN
            /\ LlmCalls(calls) = <<>>
            /\ result = RetrievalError(arg, Failed(VendorCalls(calls))[1].api)
          ELSE Len(LlmCalls(calls)) = 1

\* analyze_stock returned a retrieval error for a ticker of two letters
C8_Witness ==
  /\ AnalyzeStockCalled
  /\ arg = <<"A", "B">>
  /\ Failed(VendorCalls(calls)) # <<>>
  /\ result = RetrievalError(arg, "info")

\* ------------------------------------------------------------ claims of the page
Last(q) == q[Len(q)]

StartsWith(t, prefix) == Len(t) >= Len(prefix) /\ SubSeq(t, 1, Len(prefix)) = prefix

\* C2: groq_generate sends exactly one chat-completion request and never
\* raises: with a well-formed response it returns the first choice's content
\* unchanged, on any failure it returns an error string.
C2_GroqOneRequestNoRaise ==
  /\ Len(LlmCalls(calls)) <= 1
  /\ pc # "crashed"
  /\ (pc \in {"single_show", "compare_show"} /\ Failed(VendorCalls(calls)) = <<>>) =>
       Len(LlmCalls(calls)) = 1
  /\ (pc \in {"single_show", "compare_show", "done"} /\ LlmCalls(calls) # <<>>) =>
       LET c == LlmCalls(calls)[1]
       IN /\ Last(calls) = c
          /\ IF c.ok THEN result = PyStr(c.reply)
             ELSE /\ result.k = "str"
                  /\ StartsWith(result.s, <<"Error generating content: ">>)
                  /\ Len(result.s) > 1
          /\ pc = "done" => Last(displayed) = Widget("markdown", result.s)

\* the request of a comparison met an HTTP error status
C2_Witness ==
  /\ pc = "compare_show"
  /\ LlmCalls(calls) # <<>>
  /\ ~LlmCalls(calls)[1].ok
  /\ result = GenerationError("http_error")

RetrievalSites == {"compare_tab", "compare_stocks"}

\* the tickers get_stock_data was called for at a site, in order
RetrievedAt(site) ==
  LET r == CallsOf(CallsAt(calls, site), "info") IN [i \in 1..Len(r) |-> r[i].arg]

FailedAt(site) == Failed(VendorCalls(CallsAt(calls, site)))

\* C3: a comparison retrieves tickers in list order and aborts on the first
\* retrieval error: no ticker after the failing one is retrieved, the result
\* is an error naming the failing ticker, and no LLM request is sent; only
\* when every retrieval succeeds is exactly one LLM request sent, with one
\* prompt for all N tickers.
C3_CompareAbortsOnFirstError ==
  /\ \A site \in RetrievalSites :
       /\ Len(RetrievedAt(site)) <= Len(ticker_list)
       /\ RetrievedAt(site) = SubSeq(ticker_list, 1, Len(RetrievedAt(site)))
  /\ \A i \in 1..Len(calls) :
       (calls[i].site \in RetrievalSites /\ ~calls[i].ok /\ calls[i].api # "llm") =>
         i = Len(calls)
  /\ (pc = "done" /\ FailedAt("compare_tab") # <<>>) =>
       /\ Last(displayed).widget = "error"
       /\ StartsWith(Last(displayed).text,
                     <<"Error retrieving data for ">> \o Last(calls).arg \o <<": ">>)
  /\ (pc \in {"compare_show", "done"} /\ FailedAt("compare_stocks") # <<>>) =>
       /\ StartsWith(result.s, <<"Error processing ">> \o Last(calls).arg \o <<": ">>)
       /\ LlmCalls(calls) = <<>>
  /\ pc = "compare_show" =>
       (Len(LlmCalls(calls)) = 1 <=> FailedAt("compare_stocks") = <<>>)
  /\ \A i \in 1..Len(calls) :
       (calls[i].api = "llm" /\ compare_button) =>
         /\ Len(LlmCalls(calls)) = 1
         /\ FailedAt("compare_stocks") = <<>>
         /\ RetrievedAt("compare_stocks") = ticker_list
         /\ \A j \in 1..Len(ticker_list) :
              Contains(calls[i].arg, <<" (">> \o ticker_list[j] \o <<")">>)
         /\ Len(SelectSeq(calls[i].arg, LAMBDA piece : piece = " (")) = Len(ticker_list)

\* compare_stocks stopped at the second of four tickers
C3_Witness ==
  /\ pc = "compare_show"
  /\ Len(ticker_list) = 4
  /\ Len(RetrievedAt("compare_stocks")) = 2
  /\ FailedAt("compare_stocks") # <<>>
  /\ LlmCalls(calls) = <<>>

ErrorPrefixes ==
  {<<"Error retrieving data for ">>, <<"An error occurred: ">>,
   <<"Error generating content: ">>, <<"Error processing ">>}

\* C4: in every UI interaction a failure of any external call (snapshot
\* retrieval, a chart's price-history fetch, the LLM request) becomes a
\* displayed string and the interaction ends normally; no exception of an
\* external call leaves the button handler.
C4_FailuresAreDisplayed ==
  /\ pc # "crashed"
  /\ (pc = "done" /\ Failed(calls) # <<>>) =>
       /\ ~Last(calls).ok
       /\ Last(displayed).widget \in {"error", "markdown"}
       /\ \E prefix \in ErrorPrefixes : StartsWith(Last(displayed).text, prefix)

\* the chart's history fetch of a comparison raised
C4_Witness ==
  /\ pc = "done"
  /\ compare_button
  /\ calls # <<>>
  /\ Last(calls).site = "chart"
  /\ ~Last(calls).ok
  /\ Last(displayed) = Widget("error", <<"An error occurred: ">> \o ExcText("history"))

\* C5: in a single-stock interaction whose retrievals succeed and whose LLM
\* response is well formed, the text shown under "AI Analysis" is exactly
\* the response's first-choice content.
C5_DisplayedTextIsContent ==
  (pc = "done" /\ analyze_button /\ LlmCalls(calls) # <<>> /\ LlmCalls(calls)[1].ok) =>
    /\ Last(displayed) = Widget("markdown", LlmCalls(calls)[1].reply)
    /\ displayed[Len(displayed) - 1] = Widget("subheader", <<"AI Analysis">>)

\* a single-stock interaction that showed a non-empty analysis
C5_Witness ==
  /\ pc = "done"
  /\ analyze_button
  /\ LlmCalls(calls) # <<>>
  /\ LlmCalls(calls)[1].reply = <<"Strong fundamentals.">>
  /\ Last(displayed).text = <<"Strong fundamentals.">>

\* the comparison tab without its last sentence: the guard on the button and
\* on the length of the list
C9_GuardOnLengthAndButton ==
  ~analyze_button =>
    /\ calls # <<>> => (compare_button /\ Len(ticker_list) >= 2)
    /\ (pc = "done" /\ compare_button /\ Len(ticker_list) = 1) =>
         /\ calls = <<>>
         /\ Last(displayed) =
              Widget("warning", <<"Please select at least 2 stocks for comparison">>)
    /\ ticker_list = <<>> => (calls = <<>> /\ displayed = <<>>)

\* C9: the comparison tab runs a comparison only when the button is pressed
\* with at least 2 stocks selected (one ticker: the warning and no external
\* call; an empty list: no external call and nothing shown), and every entry
\* of a custom comma-separated input that reaches retrieval is a non-empty
\* ticker.
C9_CompareNeedsTwoRealTickers ==
  /\ C9_GuardOnLengthAndButton
  /\ ~analyze_button =>
       \A i \in 1..Len(calls) : calls[i].api \in {"info", "history"} => calls[i].arg # <<>>

Count(q, x) == Cardinality({i \in 1..Len(q) : q[i] = x})

\* C10: within one UI interaction the data source is consulted once per
\* ticker, the snapshot substituted into the prompt is the snapshot
\* displayed, and a retrieval that succeeded for the display does not fail
\* for the prompt.
C10_PromptSnapshotIsDisplayedSnapshot ==
  /\ \A i \in 1..Len(calls) :
       calls[i].api = "info" =>
         Count([j \in 1..Len(calls) |-> <<calls[j].api, calls[j].arg>>],
               <<"info", calls[i].arg>>)
           <= (IF analyze_button THEN 1 ELSE Count(ticker_list, calls[i].arg))
  /\ (analyze_button /\ LlmCalls(calls) # <<>>) => fn_data = data
  /\ (compare_button /\ LlmCalls(calls) # <<>>) => fn_all_data = all_data
  /\ FailedAt("analyze_stock") = <<>>
  /\ FailedAt("compare_stocks") = <<>>

====
